---------------------------- MODULE Spec2Model ----------------------------
(***************************************************************************)
(* XBRL financial-statement extraction pipeline of financialreader:        *)
(* GAAPTaxonomyMapper (gaap_taxonomy.py) and XBRLFinancialParser           *)
(* (xbrl_parser.py).                                                       *)
(*                                                                         *)
(* Encoding of Python values:                                              *)
(*   - an optional value is a sequence: <<>> is None, <<x>> is x;          *)
(*   - a date string "YYYY-MM-DD" is the tuple <<y, m, d>>; the string     *)
(*     order of zero-padded dates is the lexicographic order of tuples;    *)
(*     a string that strptime rejects is a tuple with an impossible month  *)
(*     or day; the empty string and None are both <<>>; a JSON number in   *)
(*     the place of a date string is the one-element tuple <<n>>;          *)
(*   - a dict is a function; a dict whose iteration order matters is a     *)
(*     sequence of [key, value] entries in insertion order;                *)
(*   - a JSON object with optional keys carries the set of its keys in     *)
(*     the field "keys", and dict.get is the operator Get;                 *)
(*   - a float n / d is the pair [num |-> n, den |-> d].                   *)
(* FinancialDataPoint.frame, company_cik and company_name are carried      *)
(* through by the code without being read and are left out.                *)
(***************************************************************************)
EXTENDS Integers, Sequences, FiniteSets, TLC

None == <<>>

Some(x) == <<x>>

Range(s) == {s[i] : i \in DOMAIN s}

(***************************************************************************)
(* gaap_taxonomy.py                                                        *)
(***************************************************************************)

\* GAAPTaxonomyMapper._build_tag_mapping: the concepts in dict order
\* (income statement, balance sheet, cash flow).
Taxonomy ==
  <<
    [concept |-> "revenue", tag |-> "RevenueFromContractWithCustomerExcludingAssessedTax",
     statement_type |-> "income_statement", alternative_tags |-> <<"Revenues", "SalesRevenueNet">>,
     required |-> TRUE],
    [concept |-> "cost_of_goods_sold", tag |-> "CostOfGoodsAndServicesSold",
     statement_type |-> "income_statement", alternative_tags |-> <<"CostOfRevenue", "CostOfGoodsSold">>,
     required |-> TRUE],
    [concept |-> "gross_profit", tag |-> "GrossProfit",
     statement_type |-> "income_statement", alternative_tags |-> <<>>,
     required |-> FALSE],
    [concept |-> "research_and_development", tag |-> "ResearchAndDevelopmentExpense",
     statement_type |-> "income_statement", alternative_tags |-> <<"ResearchAndDevelopmentExpenseExcludingAcquiredInProcessCost">>,
     required |-> TRUE],
    [concept |-> "selling_general_administrative", tag |-> "SellingGeneralAndAdministrativeExpense",
     statement_type |-> "income_statement", alternative_tags |-> <<"SellingAndMarketingExpense", "GeneralAndAdministrativeExpense">>,
     required |-> TRUE],
    [concept |-> "operating_income", tag |-> "OperatingIncomeLoss",
     statement_type |-> "income_statement", alternative_tags |-> <<>>,
     required |-> TRUE],
    [concept |-> "net_income", tag |-> "NetIncomeLoss",
     statement_type |-> "income_statement", alternative_tags |-> <<>>,
     required |-> TRUE],
    [concept |-> "earnings_per_share_basic", tag |-> "EarningsPerShareBasic",
     statement_type |-> "income_statement", alternative_tags |-> <<>>,
     required |-> TRUE],
    [concept |-> "earnings_per_share_diluted", tag |-> "EarningsPerShareDiluted",
     statement_type |-> "income_statement", alternative_tags |-> <<>>,
     required |-> TRUE],
    [concept |-> "interest_expense", tag |-> "InterestExpense",
     statement_type |-> "income_statement", alternative_tags |-> <<>>,
     required |-> FALSE],
    [concept |-> "income_tax_expense", tag |-> "IncomeTaxExpenseBenefit",
     statement_type |-> "income_statement", alternative_tags |-> <<>>,
     required |-> FALSE],
    [concept |-> "cash_and_equivalents", tag |-> "CashAndCashEquivalentsAtCarryingValue",
     statement_type |-> "balance_sheet", alternative_tags |-> <<"CashCashEquivalentsRestrictedCashAndRestrictedCashEquivalents">>,
     required |-> TRUE],
    [concept |-> "accounts_receivable", tag |-> "AccountsReceivableNetCurrent",
     statement_type |-> "balance_sheet", alternative_tags |-> <<>>,
     required |-> FALSE],
    [concept |-> "inventory", tag |-> "InventoryNet",
     statement_type |-> "balance_sheet", alternative_tags |-> <<"Inventory">>,
     required |-> FALSE],
    [concept |-> "current_assets", tag |-> "AssetsCurrent",
     statement_type |-> "balance_sheet", alternative_tags |-> <<>>,
     required |-> TRUE],
    [concept |-> "property_plant_equipment", tag |-> "PropertyPlantAndEquipmentNet",
     statement_type |-> "balance_sheet", alternative_tags |-> <<>>,
     required |-> TRUE],
    [concept |-> "total_assets", tag |-> "Assets",
     statement_type |-> "balance_sheet", alternative_tags |-> <<>>,
     required |-> TRUE],
    [concept |-> "accounts_payable", tag |-> "AccountsPayableCurrent",
     statement_type |-> "balance_sheet", alternative_tags |-> <<>>,
     required |-> FALSE],
    [concept |-> "current_liabilities", tag |-> "LiabilitiesCurrent",
     statement_type |-> "balance_sheet", alternative_tags |-> <<>>,
     required |-> TRUE],
    [concept |-> "long_term_debt", tag |-> "LongTermDebt",
     statement_type |-> "balance_sheet", alternative_tags |-> <<"LongTermDebtNoncurrent">>,
     required |-> TRUE],
    [concept |-> "total_liabilities", tag |-> "Liabilities",
     statement_type |-> "balance_sheet", alternative_tags |-> <<>>,
     required |-> TRUE],
    [concept |-> "shareholders_equity", tag |-> "StockholdersEquity",
     statement_type |-> "balance_sheet", alternative_tags |-> <<"StockholdersEquityIncludingPortionAttributableToNoncontrollingInterest">>,
     required |-> TRUE],
    [concept |-> "retained_earnings", tag |-> "RetainedEarningsAccumulatedDeficit",
     statement_type |-> "balance_sheet", alternative_tags |-> <<>>,
     required |-> FALSE],
    [concept |-> "common_shares_outstanding", tag |-> "CommonStockSharesOutstanding",
     statement_type |-> "balance_sheet", alternative_tags |-> <<>>,
     required |-> FALSE],
    [concept |-> "operating_cash_flow", tag |-> "NetCashProvidedByUsedInOperatingActivities",
     statement_type |-> "cash_flow", alternative_tags |-> <<>>,
     required |-> TRUE],
    [concept |-> "investing_cash_flow", tag |-> "NetCashProvidedByUsedInInvestingActivities",
     statement_type |-> "cash_flow", alternative_tags |-> <<>>,
     required |-> TRUE],
    [concept |-> "financing_cash_flow", tag |-> "NetCashProvidedByUsedInFinancingActivities",
     statement_type |-> "cash_flow", alternative_tags |-> <<>>,
     required |-> TRUE],
    [concept |-> "capital_expenditures", tag |-> "PaymentsToAcquirePropertyPlantAndEquipment",
     statement_type |-> "cash_flow", alternative_tags |-> <<"CapitalExpenditures">>,
     required |-> TRUE],
    [concept |-> "dividends_paid", tag |-> "PaymentsOfDividendsCommonStock",
     statement_type |-> "cash_flow", alternative_tags |-> <<"PaymentsOfDividends">>,
     required |-> FALSE],
    [concept |-> "stock_repurchases", tag |-> "PaymentsForRepurchaseOfCommonStock",
     statement_type |-> "cash_flow", alternative_tags |-> <<>>,
     required |-> FALSE],
    [concept |-> "depreciation_amortization", tag |-> "DepreciationDepletionAndAmortization",
     statement_type |-> "cash_flow", alternative_tags |-> <<"Depreciation", "DepreciationAndAmortization">>,
     required |-> FALSE]
  >>

\* str.lower on the concept names the model uses
Lower(s) ==
  CASE s = "REVENUE" -> "revenue"
    [] s = "Total_Assets" -> "total_assets"
    [] s = "GoodWill" -> "goodwill"
    [] OTHER -> s

\* GAAPTaxonomyMapper.get_all_concepts
get_all_concepts == [i \in DOMAIN Taxonomy |-> Taxonomy[i].concept]

\* GAAPTaxonomyMapper.get_gaap_tag: the GAAPTag of a concept, or None
get_gaap_tag(concept) ==
  LET hits == {i \in DOMAIN Taxonomy : Taxonomy[i].concept = Lower(concept)}
  IN  IF hits = {} THEN None ELSE Some(Taxonomy[CHOOSE i \in hits : TRUE])

\* every concept, required or not
get_required_conceptsAll == get_all_concepts

\* GAAPTaxonomyMapper.get_required_concepts
get_required_concepts ==
  SelectSeq(get_all_concepts, LAMBDA c : get_gaap_tag(c)[1].required)

\* the first available tag that is an alternative, in the order of
\* available_tags instead of the declared order
RECURSIVE FirstAvailableAltInListOrder(_, _, _)
FirstAvailableAltInListOrder(alts, available_tags, i) ==
  IF i > Len(available_tags) THEN None
  ELSE IF available_tags[i] \in Range(alts) THEN Some(available_tags[i])
  ELSE FirstAvailableAltInListOrder(alts, available_tags, i + 1)

\* the loop over alternative_tags of find_best_tag, from position i on
RECURSIVE FirstAvailableAlt(_, _, _)
FirstAvailableAlt(alts, available_tags, i) ==
  IF i > Len(alts) THEN None
  ELSE IF alts[i] \in Range(available_tags) THEN Some(alts[i])
  ELSE FirstAvailableAlt(alts, available_tags, i + 1)

\* find_best_tag without the loop over the alternative tags
find_best_tagPrimaryOnly(available_tags, concept) ==
  LET gaap_tag == get_gaap_tag(concept)
  IN  IF gaap_tag = None THEN None
      ELSE IF gaap_tag[1].tag \in Range(available_tags) THEN Some(gaap_tag[1].tag)
      ELSE None

\* find_best_tag with the alternative tags checked before the primary tag
find_best_tagAlternativesFirst(available_tags, concept) ==
  LET gaap_tag == get_gaap_tag(concept)
  IN  IF gaap_tag = None THEN None
      ELSE LET alt == FirstAvailableAlt(gaap_tag[1].alternative_tags, available_tags, 1)
           IN  IF alt # None THEN alt
               ELSE IF gaap_tag[1].tag \in Range(available_tags)
                    THEN Some(gaap_tag[1].tag)
               ELSE None

\* GAAPTaxonomyMapper.find_best_tag
find_best_tag(available_tags, concept) ==
  LET gaap_tag == get_gaap_tag(concept)
  IN  IF gaap_tag = None THEN None
      ELSE IF gaap_tag[1].tag \in Range(available_tags) THEN Some(gaap_tag[1].tag)
      ELSE FirstAvailableAlt(gaap_tag[1].alternative_tags, available_tags, 1)

(***************************************************************************)
(* xbrl_parser.py: values and helpers                                      *)
(***************************************************************************)

\* dict.get(key, default) on a JSON object
Get(obj, key, default) == IF key \in obj.keys THEN obj[key] ELSE default

\* TRUE, once v has been worked out: a loop is read as its first half and
\* then its second half, and the second half starts from the value the first
\* half has left, not from the expression for it
Evaluated(v) == v = v

\* the value of key k in an insertion-ordered dict (k is a key of d)
Lookup(d, k) == d[CHOOSE i \in DOMAIN d : d[i].key = k].value

\* the keys of an insertion-ordered dict, in order
Keys(d) == [i \in DOMAIN d |-> d[i].key]

DaysInMonth(y, m) ==
  IF m \in {4, 6, 9, 11} THEN 30
  ELSE IF m = 2 THEN (IF y % 4 = 0 /\ (y % 100 # 0 \/ y % 400 = 0) THEN 29 ELSE 28)
  ELSE 31

\* isinstance(s, str) for the values an 'end' field takes
IsStr(s) == Len(s) # 1

\* datetime.strptime(s, '%Y-%m-%d'): ok is FALSE where Python raises ValueError
strptime(s) ==
  IF /\ Len(s) = 3
     /\ s[1] \in 1..9999
     /\ s[2] \in 1..12
     /\ s[3] \in 1..DaysInMonth(s[1], s[2])
  THEN [ok |-> TRUE, year |-> s[1], month |-> s[2], day |-> s[3]]
  ELSE [ok |-> FALSE, year |-> 0, month |-> 0, day |-> 0]

\* a < b for strings: '' is below every date, dates compare field by field
StrLess(a, b) ==
  IF a = <<>> THEN b # <<>>
  ELSE IF b = <<>> THEN FALSE
  ELSE \/ a[1] < b[1]
       \/ a[1] = b[1] /\ a[2] < b[2]
       \/ a[1] = b[1] /\ a[2] = b[2] /\ a[3] < b[3]

\* datetime.now().year
current_year == 2026

\* default of the years argument of extract_company_financials
DefaultYears == 10

(***************************************************************************)
(* XBRLFinancialParser._extract_statements_by_period, lines 100-145:       *)
(* the extraction loop                                                     *)
(***************************************************************************)

\* `if not best_tag: continue`
SkipConcept(best_tag) == best_tag = None

\* the inner loop without the test of lines 128-129
ExtractPointNoCutoff(concept, best_tag, unit_type, data_point, cutoff_year) ==
  LET end_date == Get(data_point, "end", None)
      form == Get(data_point, "form", "")
      val == Get(data_point, "val", Some(0))
      skip == [kind |-> "skip", dp |-> None]
  IN  IF end_date = None \/ form \notin {"10-K", "10-Q"} THEN skip
      ELSE IF ~IsStr(end_date) THEN [kind |-> "raise", dp |-> None]
      ELSE IF ~strptime(end_date).ok THEN skip
      ELSE IF val = None THEN [kind |-> "raise", dp |-> None]
      ELSE [kind |-> "emit",
            dp |-> Some([concept |-> concept, gaap_tag |-> best_tag,
                         value |-> val[1], unit |-> unit_type,
                         end_date |-> end_date, form |-> form,
                         filed_date |-> Get(data_point, "filed", None)])]

\* the inner loop without the try/except of lines 126-131: the ValueError of
\* strptime escapes
ExtractPointUncaught(concept, best_tag, unit_type, data_point, cutoff_year) ==
  LET end_date == Get(data_point, "end", None)
      form == Get(data_point, "form", "")
      end_date_parsed == strptime(end_date)
      val == Get(data_point, "val", Some(0))
      skip == [kind |-> "skip", dp |-> None]
  IN  IF end_date = None \/ form \notin {"10-K", "10-Q"} THEN skip
      ELSE IF ~IsStr(end_date) \/ ~end_date_parsed.ok
           THEN [kind |-> "raise", dp |-> None]
      ELSE IF end_date_parsed.year < cutoff_year THEN skip
      ELSE IF val = None THEN [kind |-> "raise", dp |-> None]
      ELSE [kind |-> "emit",
            dp |-> Some([concept |-> concept, gaap_tag |-> best_tag,
                         value |-> val[1], unit |-> unit_type,
                         end_date |-> end_date, form |-> form,
                         filed_date |-> Get(data_point, "filed", None)])]

\* One data point of the inner loop.  kind is "skip" (continue), "emit"
\* (a FinancialDataPoint is appended) or "raise" (strptime of an end that is
\* not a string and float(None) raise TypeError, which `except ValueError`
\* does not catch; a val that is not a number does the same with ValueError).
ExtractPoint(concept, best_tag, unit_type, data_point, cutoff_year) ==
  LET end_date == Get(data_point, "end", None)
      form == Get(data_point, "form", "")
      end_date_parsed == strptime(end_date)
      val == Get(data_point, "val", Some(0))
      skip == [kind |-> "skip", dp |-> None]
  IN  IF end_date = None \/ form \notin {"10-K", "10-Q"} THEN skip
      ELSE IF ~IsStr(end_date) THEN [kind |-> "raise", dp |-> None]
      ELSE IF ~end_date_parsed.ok THEN skip
      ELSE IF end_date_parsed.year < cutoff_year THEN skip
      ELSE IF val = None THEN [kind |-> "raise", dp |-> None]
      ELSE [kind |-> "emit",
            dp |-> Some([concept |-> concept, gaap_tag |-> best_tag,
                         value |-> val[1], unit |-> unit_type,
                         end_date |-> end_date, form |-> form,
                         filed_date |-> Get(data_point, "filed", None)])]

\* `for data_point in data_points`, from position i on; acc is
\* [points |-> all_data_points so far, raised |-> the exception that escaped,
\* "" for none]
RECURSIVE ExtractPoints(_, _, _, _, _, _, _)
ExtractPoints(concept, best_tag, unit_type, data_points, cutoff_year, i, acc) ==
  IF acc.raised # "" \/ i > Len(data_points) THEN acc
  ELSE LET r == ExtractPoint(concept, best_tag, unit_type, data_points[i], cutoff_year)
       IN  ExtractPoints(concept, best_tag, unit_type, data_points, cutoff_year, i + 1,
             IF r.kind = "raise" THEN [acc EXCEPT !.raised = "TypeError"]
             ELSE IF r.kind = "emit" THEN [acc EXCEPT !.points = Append(@, r.dp[1])]
             ELSE acc)

\* `for unit_type, data_points in units.items()`, from position j on
RECURSIVE ExtractUnits(_, _, _, _, _, _)
ExtractUnits(concept, best_tag, units, cutoff_year, j, acc) ==
  IF acc.raised # "" \/ j > Len(units) THEN acc
  ELSE ExtractUnits(concept, best_tag, units, cutoff_year, j + 1,
         ExtractPoints(concept, best_tag, units[j].key, units[j].value,
                       cutoff_year, 1, acc))

\* one turn of `for concept in GAAP_MAPPER.get_all_concepts()`: the k-th
\* concept; nothing is done once an exception has escaped
ExtractConcept(us_gaap_facts, cutoff_year, k, acc) ==
  IF acc.raised # "" THEN acc
  ELSE LET concept == get_all_concepts[k]
           available_tags == Keys(us_gaap_facts)
           best_tag == find_best_tag(available_tags, concept)
       IN  IF SkipConcept(best_tag) THEN acc
           ELSE IF best_tag = None \/ best_tag[1] \notin Range(available_tags)
                THEN [acc EXCEPT !.raised = "KeyError"]   \* us_gaap_facts[best_tag]
           ELSE ExtractUnits(concept, best_tag[1], Lookup(us_gaap_facts, best_tag[1]),
                             cutoff_year, 1, acc)

\* the turns for the concepts at positions k to n, in order: those of the
\* first half, then those of the second half on what the first half left
RECURSIVE ExtractConceptsTo(_, _, _, _, _)
ExtractConceptsTo(us_gaap_facts, cutoff_year, k, n, acc) ==
  IF k > n THEN acc
  ELSE IF k = n THEN ExtractConcept(us_gaap_facts, cutoff_year, k, acc)
  ELSE LET half == (k + n) \div 2
           first == ExtractConceptsTo(us_gaap_facts, cutoff_year, k, half, acc)
       IN  IF first.raised # "" THEN first
           ELSE ExtractConceptsTo(us_gaap_facts, cutoff_year, half + 1, n, first)

\* `for concept in GAAP_MAPPER.get_all_concepts()`, from position k on
ExtractConcepts(us_gaap_facts, cutoff_year, k, acc) ==
  ExtractConceptsTo(us_gaap_facts, cutoff_year, k, Len(get_all_concepts), acc)

(***************************************************************************)
(* lines 147-164: grouping by fiscal year                                  *)
(***************************************************************************)

\* the end year for every record, whatever its month and form
FiscalYearOfAnyMonth(dp) ==
  LET end_date == strptime(dp.end_date)
  IN  IF ~end_date.ok THEN None ELSE Some(end_date.year)

\* `and` in place of `or` in the condition of line 155
FiscalYearOfAnd(dp) ==
  LET end_date == strptime(dp.end_date)
  IN  IF ~end_date.ok THEN None
      ELSE IF end_date.month >= 9 /\ dp.form = "10-K" THEN Some(end_date.year)
      ELSE None

\* the fiscal year of a record, or None when the record is put in no group
FiscalYearOf(dp) ==
  LET end_date == strptime(dp.end_date)
  IN  IF ~end_date.ok THEN None
      ELSE IF end_date.month >= 9 \/ dp.form = "10-K" THEN Some(end_date.year)
      ELSE None

\* a new list for every record, whether or not the key is there
AppendToNewGroup(d, key, x) == Append(d, [key |-> key, value |-> <<x>>])

\* statements_by_period[key].append(dp), creating the list when key is new
AppendTo(d, key, x) ==
  IF \E i \in DOMAIN d : d[i].key = key
  THEN [i \in DOMAIN d |->
          IF d[i].key = key THEN [d[i] EXCEPT !.value = Append(@, x)] ELSE d[i]]
  ELSE Append(d, [key |-> key, value |-> <<x>>])

\* one turn of `for dp in all_data_points`: the record at position i
GroupPoint(points, i, by_period) ==
  LET fy == FiscalYearOf(points[i])
  IN  IF fy = None THEN by_period ELSE AppendTo(by_period, fy[1], points[i])

\* the turns for the records at positions i to n, in order: those of the
\* first half, then those of the second half on the dict the first half
\* has left
RECURSIVE GroupPointsTo(_, _, _, _)
GroupPointsTo(points, i, n, by_period) ==
  IF i > n THEN by_period
  ELSE IF i = n THEN GroupPoint(points, i, by_period)
  ELSE LET half == (i + n) \div 2
           first == GroupPointsTo(points, i, half, by_period)
       IN  IF Evaluated(first)
           THEN GroupPointsTo(points, half + 1, n, first) ELSE first

\* `for dp in all_data_points`, from position i on
GroupPoints(points, i, by_period) == GroupPointsTo(points, i, Len(points), by_period)

(***************************************************************************)
(* lines 169-187: the filing selected for one fiscal year                  *)
(***************************************************************************)

\* no preference of form: every record of the group
PreferredFormAnyForm(data_points) == data_points

\* lines 171-174: 10-K records, else 10-Q records
PreferredForm(data_points) ==
  LET annual == SelectSeq(data_points, LAMBDA dp : dp.form = "10-K")
  IN  IF annual # <<>> THEN annual
      ELSE SelectSeq(data_points, LAMBDA dp : dp.form = "10-Q")

\* the sort key `x.filed_date or ''`
FiledKey(dp) == dp.filed_date

\* an ascending sort: x goes after the elements whose key is not above its own
InsertDescAscending(s, x) ==
  LET n == Cardinality({i \in DOMAIN s : ~StrLess(FiledKey(x), FiledKey(s[i]))})
  IN  SubSeq(s, 1, n) \o <<x>> \o SubSeq(s, n + 1, Len(s))

\* a descending sort that is not stable: x goes before the elements whose
\* key equals its own
InsertDescUnstable(s, x) ==
  LET n == Cardinality({i \in DOMAIN s : StrLess(FiledKey(x), FiledKey(s[i]))})
  IN  SubSeq(s, 1, n) \o <<x>> \o SubSeq(s, n + 1, Len(s))

\* list.sort(key=..., reverse=True): stable, descending.  x goes after the
\* elements of the sorted prefix s whose key is not below its own.
InsertDesc(s, x) ==
  LET n == Cardinality({i \in DOMAIN s : ~StrLess(FiledKey(s[i]), FiledKey(x))})
  IN  SubSeq(s, 1, n) \o <<x>> \o SubSeq(s, n + 1, Len(s))

\* the elements of s at positions i to n put, in order, into the sorted
\* list: those of the first half, then those of the second half
RECURSIVE SortByFiledDescTo(_, _, _, _)
SortByFiledDescTo(s, i, n, sorted) ==
  IF i > n THEN sorted
  ELSE IF i = n THEN InsertDesc(sorted, s[i])
  ELSE LET half == (i + n) \div 2
           first == SortByFiledDescTo(s, i, half, sorted)
       IN  IF Evaluated(first)
           THEN SortByFiledDescTo(s, half + 1, n, first) ELSE first

\* the elements of s from position i on put, in order, into the sorted list
SortByFiledDesc(s, i, sorted) == SortByFiledDescTo(s, i, Len(s), sorted)

\* no filter on the filing date
SameFilingUnfiltered(annual_data_points) == annual_data_points

\* lines 184-187: the records of the filing of annual_data_points[0]
SameFiling(annual_data_points) ==
  LET primary_filing_date == annual_data_points[1].filed_date
  IN  SelectSeq(annual_data_points, LAMBDA dp : dp.filed_date = primary_filing_date)

\* lines 171-187 for one year-group (empty when the group has no usable record)
SelectFiling(data_points) ==
  LET annual_data_points == PreferredForm(data_points)
  IN  IF annual_data_points = <<>> THEN <<>>
      ELSE SameFiling(SortByFiledDesc(annual_data_points, 1, <<>>))

(***************************************************************************)
(* XBRLFinancialParser._create_financial_statement                         *)
(***************************************************************************)

\* XBRLFinancialParser._normalize_value
normalize_value(value, unit) == value

\* d[k] = v on a dict
Assign(d, k, v) == [x \in (DOMAIN d) \cup {k} |-> IF x = k THEN v ELSE d[x]]

\* one turn of the loop with the value put in income_statement, whatever
\* the statement type of its concept
PlacePointOneMapping(data_points, i, acc) ==
  LET dp == data_points[i]
      found == [acc EXCEPT !.found_concepts = @ \cup {dp.concept}]
  IN  IF get_gaap_tag(dp.concept) = None THEN acc
      ELSE [found EXCEPT !.income_statement =
                           Assign(@, dp.concept, normalize_value(dp.value, dp.unit))]

RECURSIVE PlacePointsOneMappingTo(_, _, _, _)
PlacePointsOneMappingTo(data_points, i, n, acc) ==
  IF i > n THEN acc
  ELSE IF i = n THEN PlacePointOneMapping(data_points, i, acc)
  ELSE LET half == (i + n) \div 2
           first == PlacePointsOneMappingTo(data_points, i, half, acc)
       IN  IF Evaluated(first)
           THEN PlacePointsOneMappingTo(data_points, half + 1, n, first) ELSE first

\* the loop with every value put in income_statement
PlacePointsOneMapping(data_points, i, acc) ==
  PlacePointsOneMappingTo(data_points, i, Len(data_points), acc)

\* lines 218-234: one turn of `for dp in data_points`, the record at
\* position i
PlacePoint(data_points, i, acc) ==
  LET dp == data_points[i]
      normalized_value == normalize_value(dp.value, dp.unit)
      gaap_tag_info == get_gaap_tag(dp.concept)
      found == [acc EXCEPT !.found_concepts = @ \cup {dp.concept}]
  IN  IF gaap_tag_info = None THEN acc
      ELSE IF gaap_tag_info[1].statement_type = "income_statement"
        THEN [found EXCEPT !.income_statement = Assign(@, dp.concept, normalized_value)]
      ELSE IF gaap_tag_info[1].statement_type = "balance_sheet"
        THEN [found EXCEPT !.balance_sheet = Assign(@, dp.concept, normalized_value)]
      ELSE IF gaap_tag_info[1].statement_type = "cash_flow"
        THEN [found EXCEPT !.cash_flow = Assign(@, dp.concept, normalized_value)]
      ELSE found

\* the turns for the records at positions i to n, in order: those of the
\* first half, then those of the second half on what the first half has left
RECURSIVE PlacePointsTo(_, _, _, _)
PlacePointsTo(data_points, i, n, acc) ==
  IF i > n THEN acc
  ELSE IF i = n THEN PlacePoint(data_points, i, acc)
  ELSE LET half == (i + n) \div 2
           first == PlacePointsTo(data_points, i, half, acc)
       IN  IF Evaluated(first)
           THEN PlacePointsTo(data_points, half + 1, n, first) ELSE first

\* lines 218-234: `for dp in data_points`, from position i on
PlacePoints(data_points, i, acc) == PlacePointsTo(data_points, i, Len(data_points), acc)

\* every found concept counted, required or not
QualityScoreAllFound(found_concepts) ==
  [num |-> Cardinality(found_concepts), den |-> Len(get_required_concepts)]

\* lines 236-238: required_found / len(expected_concepts)
QualityScore(found_concepts) ==
  LET expected_concepts == get_required_concepts
      required_found ==
        Len(SelectSeq(expected_concepts, LAMBDA c : c \in found_concepts))
  IN  IF expected_concepts # <<>>
      THEN [num |-> required_found, den |-> Len(expected_concepts)]
      ELSE [num |-> 0, den |-> 1]

\* end_dates.count(e)
Count(end_dates, e) == Cardinality({i \in DOMAIN end_dates : end_dates[i] = e})

\* lines 241-242: max(set(end_dates), key=end_dates.count) returns one of the
\* most frequent end dates; which one, among equally frequent dates, follows
\* the iteration order of a set of strings, which the program does not fix.
PeriodEndChoices(data_points) ==
  LET end_dates == [i \in DOMAIN data_points |-> data_points[i].end_date]
  IN  {e \in Range(end_dates) :
         \A f \in Range(end_dates) : Count(end_dates, f) <= Count(end_dates, e)}

\* a statement for the year that keeps none of the records given to it: the
\* zero-quality placeholder
create_financial_statementPlaceholder(fiscal_year, data_points, period_end) ==
  Some([period_end |-> period_end,
        fiscal_year |-> fiscal_year,
        form_type |-> "10-K",
        income_statement |-> <<>>,
        balance_sheet |-> <<>>,
        cash_flow |-> <<>>,
        raw_data_points |-> <<>>,
        data_quality_score |-> QualityScore({})])

\* the statement with form_type fixed to the annual form
create_financial_statementAnnual(fiscal_year, data_points, period_end) ==
  IF data_points = <<>> THEN None
  ELSE LET placed == PlacePoints(data_points, 1,
                       [income_statement |-> <<>>, balance_sheet |-> <<>>,
                        cash_flow |-> <<>>, found_concepts |-> {}])
       IN  Some([period_end |-> period_end,
                 fiscal_year |-> fiscal_year,
                 form_type |-> "10-K",
                 income_statement |-> placed.income_statement,
                 balance_sheet |-> placed.balance_sheet,
                 cash_flow |-> placed.cash_flow,
                 raw_data_points |-> data_points,
                 data_quality_score |-> QualityScore(placed.found_concepts)])

\* _create_financial_statement: None for no data points, else the statement
\* with the given choice of period_end
create_financial_statement(fiscal_year, data_points, period_end) ==
  IF data_points = <<>> THEN None
  ELSE LET placed == PlacePoints(data_points, 1,
                       [income_statement |-> <<>>, balance_sheet |-> <<>>,
                        cash_flow |-> <<>>, found_concepts |-> {}])
       IN  Some([period_end |-> period_end,
                 fiscal_year |-> fiscal_year,
                 form_type |-> data_points[1].form,
                 income_statement |-> placed.income_statement,
                 balance_sheet |-> placed.balance_sheet,
                 cash_flow |-> placed.cash_flow,
                 raw_data_points |-> data_points,
                 data_quality_score |-> QualityScore(placed.found_concepts)])

\* the insertion of a sort by fiscal year in ascending order
InsertByYearAsc(s, x) ==
  LET n == Cardinality({i \in DOMAIN s : s[i].fiscal_year <= x.fiscal_year})
  IN  SubSeq(s, 1, n) \o <<x>> \o SubSeq(s, n + 1, Len(s))

\* line 198: financial_statements.sort(key=fiscal_year, reverse=True), stable
InsertByYearDesc(s, x) ==
  LET n == Cardinality({i \in DOMAIN s : s[i].fiscal_year >= x.fiscal_year})
  IN  SubSeq(s, 1, n) \o <<x>> \o SubSeq(s, n + 1, Len(s))

RECURSIVE SortByYearDesc(_, _, _)
SortByYearDesc(s, i, sorted) ==
  IF i > Len(s) THEN sorted
  ELSE SortByYearDesc(s, i + 1, InsertByYearDesc(sorted, s[i]))

(***************************************************************************)
(* XBRLFinancialParser.to_dataframe                                        *)
(***************************************************************************)

\* dict.get(concept, 0): 0 when the key is absent
DictGetZero(d, k) == IF k \in DOMAIN d THEN Some(d[k]) ELSE Some(0)

\* dict.get(concept): None when the key is absent
DictGet(d, k) == IF k \in DOMAIN d THEN Some(d[k]) ELSE None

\* truth value of an optional float: None and 0.0 are false
Truthy(v) == v # None /\ v[1] # 0

\* Python's `a or b or c`: the first true operand, else the last operand
Or3(a, b, c) == IF Truthy(a) THEN a ELSE IF Truthy(b) THEN b ELSE c

\* lines 280-284
AllConcepts(financial_statements) ==
  UNION {(DOMAIN financial_statements[i].income_statement)
           \cup (DOMAIN financial_statements[i].balance_sheet)
           \cup (DOMAIN financial_statements[i].cash_flow) :
         i \in DOMAIN financial_statements}

\* lines 289-303: the row of one statement; a cell is None or Some(value)
Row(stmt, all_concepts) ==
  [fiscal_year |-> stmt.fiscal_year,
   period_end |-> stmt.period_end,
   form_type |-> stmt.form_type,
   data_quality_score |-> stmt.data_quality_score,
   cells |-> [concept \in all_concepts |->
                Or3(DictGet(stmt.income_statement, concept),
                    DictGet(stmt.balance_sheet, concept),
                    DictGet(stmt.cash_flow, concept))]]

\* to_dataframe: the columns of the financial metrics and the rows, sorted
\* by fiscal_year descending (line 310: sort_values(ascending=False); rows of
\* the same fiscal_year keep their order in tables this small)
to_dataframe(financial_statements) ==
  IF financial_statements = <<>> THEN [columns |-> {}, rows |-> <<>>]
  ELSE LET all_concepts == AllConcepts(financial_statements)
           rows == [i \in DOMAIN financial_statements |->
                      Row(financial_statements[i], all_concepts)]
       IN  [columns |-> all_concepts, rows |-> SortByYearDesc(rows, 1, <<>>)]

(***************************************************************************)
(* GAAPTaxonomyMapper: the reverse mapping from tag to concept             *)
(***************************************************************************)

\* the assignments `reverse_map[...] = concept` of the two loops: <<k, 0>>
\* is the one for the primary tag of the k-th concept, <<k, j>> the one for
\* its j-th alternative tag
Assignments ==
  UNION {{<<k, j>> : j \in 0 .. Len(Taxonomy[k].alternative_tags)} :
           k \in DOMAIN Taxonomy}

\* the key of an assignment
AssignedTag(p) ==
  IF p[2] = 0 THEN Taxonomy[p[1]].tag ELSE Taxonomy[p[1]].alternative_tags[p[2]]

\* the order the loops make the assignments in
MadeBefore(p, q) == p[1] < q[1] \/ (p[1] = q[1] /\ p[2] < q[2])

\* the reverse mapping without the alternative tags
build_reverse_mappingPrimaryOnly ==
  [k \in DOMAIN Taxonomy |-> [key |-> Taxonomy[k].tag, value |-> Taxonomy[k].concept]]

\* GAAPTaxonomyMapper._build_reverse_mapping: an insertion-ordered dict; a
\* key stands where it was first assigned and has the value it was last
\* assigned, so a later concept replaces an earlier one under a tag they share
build_reverse_mapping ==
  LET first == {p \in Assignments :
                  ~\E q \in Assignments :
                     MadeBefore(q, p) /\ AssignedTag(q) = AssignedTag(p)}
      entry(p) ==
        LET last == CHOOSE q \in Assignments :
                      /\ AssignedTag(q) = AssignedTag(p)
                      /\ ~\E r \in Assignments :
                            MadeBefore(q, r) /\ AssignedTag(r) = AssignedTag(p)
        IN  [key |-> AssignedTag(p), value |-> Taxonomy[last[1]].concept]
      position(p) == Cardinality({q \in first : MadeBefore(q, p)}) + 1
      entries == {<<position(p), entry(p)>> : p \in first}
  IN  [n \in 1 .. Cardinality(first) |->
         (CHOOSE e \in entries : e[1] = n)[2]]

\* GAAPTaxonomyMapper.get_concept_name: self._reverse_mapping.get(gaap_tag)
get_concept_name(gaap_tag) ==
  LET reverse_mapping == build_reverse_mapping
      hits == {i \in DOMAIN reverse_mapping : reverse_mapping[i].key = gaap_tag}
  IN  IF hits = {} THEN None
      ELSE Some(reverse_mapping[CHOOSE i \in hits : TRUE].value)

(***************************************************************************)
(* Inputs: the company-facts payloads the pipeline is run on               *)
(***************************************************************************)

\* the largest number of data points added to a payload
MaxPoints == 2

\* the values of the years argument
YearsArgs == {DefaultYears}

AllKeys == {"end", "form", "val", "filed"}

Pt(form, end, filed, val) ==
  [keys |-> AllKeys, form |-> form, end |-> end, filed |-> filed, val |-> Some(val)]

Without(point, key) == [point EXCEPT !.keys = @ \ {key}]

\* 10-K of fiscal 2024 and of fiscal 2023, as filed
PointFY24 == Pt("10-K", <<2024, 9, 30>>, <<2024, 11, 1>>, 110)
PointFY23 == Pt("10-K", <<2023, 9, 30>>, <<2023, 11, 1>>, 100)

\* the fiscal 2024 10-K restated later, and a 10-Q filed after the 10-K
PointRestated == Pt("10-K", <<2024, 9, 30>>, <<2025, 2, 1>>, 120)
PointLateQ == Pt("10-Q", <<2024, 9, 30>>, <<2025, 2, 1>>, 100)

DataPoints ==
  { PointFY24, PointFY23, PointRestated, PointLateQ,
    Without(Pt("10-K", <<2024, 9, 30>>, None, 100), "filed"),
    Pt("10-K", <<2023, 9, 30>>, <<2023, 11, 1>>, 0),       \* a reported zero
    Pt("10-K", <<2024, 6, 30>>, <<2024, 11, 1>>, 100),     \* 10-K ending in June
    Pt("10-Q", <<2023, 6, 30>>, <<2023, 8, 1>>, 100) }     \* 10-Q ending in June

\* points that the extraction loop has to filter or that break it
OddPoints ==
  { Pt("10-K/A", <<2024, 9, 30>>, <<2025, 2, 1>>, 100),
    Without(Pt("", <<2024, 9, 30>>, <<2024, 11, 1>>, 100), "form"),
    Without(Pt("10-K", None, <<2024, 11, 1>>, 100), "end"),
    Pt("10-K", <<2024, 13, 1>>, <<2024, 11, 1>>, 100),     \* end does not parse
    Pt("10-K", <<20240930>>, <<2024, 11, 1>>, 100),        \* end is a number
    Pt("10-K", <<current_year - DefaultYears, 12, 31>>, <<2017, 2, 1>>, 100),
    Pt("10-K", <<current_year - DefaultYears - 1, 12, 31>>, <<2016, 2, 1>>, 100),
    Pt("10-K", <<current_year + 1, 12, 31>>, <<2025, 2, 1>>, 100),  \* after this year
    Without(Pt("10-K", <<2024, 9, 30>>, <<2024, 11, 1>>, 0), "val"),
    [Pt("10-K", <<2024, 9, 30>>, <<2024, 11, 1>>, 0) EXCEPT !.val = None] }  \* val: null

Entry(tag, unit, point) == [tag |-> tag, unit |-> unit, point |-> point]

\* the (tag, unit, data point) triples a payload is built from
Entries ==
  {Entry("Revenues", "USD", p) : p \in DataPoints \cup OddPoints}
    \cup {Entry("Assets", "USD", p) :
            p \in {PointFY24, PointFY23, PointRestated, PointLateQ}}
    \cup { Entry("RevenueFromContractWithCustomerExcludingAssessedTax", "USD", PointFY24),
           Entry("GrossProfit", "USD", PointFY24),
           Entry("Goodwill", "USD", PointFY24),
           Entry("Revenues", "EUR", PointFY24) }

\* us_gaap_facts[tag]['units'][unit].append(point), creating what is missing
AddEntry(facts, e) ==
  LET units == IF \E i \in DOMAIN facts : facts[i].key = e.tag
               THEN Lookup(facts, e.tag) ELSE <<>>
      units2 == AppendTo(units, e.unit, e.point)
  IN  IF \E i \in DOMAIN facts : facts[i].key = e.tag
      THEN [i \in DOMAIN facts |->
              IF facts[i].key = e.tag THEN [facts[i] EXCEPT !.value = units2] ELSE facts[i]]
      ELSE Append(facts, [key |-> e.tag, value |-> units2])

RECURSIVE AddEntries(_, _, _)
AddEntries(facts, es, i) ==
  IF i > Len(es) THEN facts ELSE AddEntries(AddEntry(facts, es[i]), es, i + 1)

\* a fiscal 2024 10-K that reports every required concept other than
\* total_assets once, under its primary tag
FilingWithoutAssets ==
  LET rest == SelectSeq(Taxonomy, LAMBDA t : t.required /\ t.concept # "total_assets")
  IN  [i \in DOMAIN rest |->
         [key |-> rest[i].tag,
          value |-> <<[key |-> "USD", value |-> <<PointFY24>>]>>]]

SeqsUpTo(S, n) == UNION {[1..k -> S] : k \in 0..n}

\* the us-gaap mappings: up to MaxPoints data points, or the filing above
\* as one of them
UsGaapFacts ==
  {AddEntries(<<>>, es, 1) : es \in SeqsUpTo(Entries, MaxPoints)}
    \cup {AddEntries(FilingWithoutAssets, es, 1) : es \in SeqsUpTo(Entries, MaxPoints - 1)}

\* what edgar_client.get_company_facts gives: an exception, a payload
\* without facts.us-gaap, or a payload with it
CompanyFacts ==
  {[fetch_ok |-> FALSE, has_us_gaap |-> FALSE, us_gaap |-> <<>>],
   [fetch_ok |-> TRUE, has_us_gaap |-> FALSE, us_gaap |-> <<>>]}
    \cup {[fetch_ok |-> TRUE, has_us_gaap |-> TRUE, us_gaap |-> f] : f \in UsGaapFacts}

(***************************************************************************)
(* State and steps of one run of extract_company_financials followed by    *)
(* to_dataframe                                                            *)
(***************************************************************************)

VARIABLES
  company_facts,         \* result of get_company_facts
  years,                 \* the years argument
  pc,                    \* position of the run
  all_data_points,       \* list of FinancialDataPoint
  statements_by_period,  \* dict fiscal year -> list of FinancialDataPoint
  group_index,           \* position of the loop over statements_by_period
  financial_statements,  \* list of FinancialStatement
  exception,             \* the exception that left the run, "" for none
  df,                    \* the table of to_dataframe
  available_tags,        \* arguments and result of a direct call of
  concept,               \*   GAAP_MAPPER.find_best_tag
  best_tag,
  metadata,              \* the rows of the table filings of FilingStorage
  retrieval,             \* the locals and the result of retrieve_company_filings
  calls,                 \* the calls made so far; the clock of download_date
  requests,              \* the filings whose content the call has asked EDGAR for
  metadata_before,       \* history: the table when the call began
  stored_ok              \* history: the accession numbers store_filing returned for

pipeline_vars == <<company_facts, years, all_data_points, statements_by_period,
                   group_index, financial_statements, exception, df>>

resolver_vars == <<available_tags, concept, best_tag>>

filing_vars == <<metadata, retrieval, calls, requests, metadata_before, stored_ok>>

vars == <<pipeline_vars, resolver_vars, filing_vars, pc>>

\* the locals of retrieve_company_filings before a call
NoRetrieval ==
  [filings |-> <<>>, force_redownload |-> FALSE, listed |-> FALSE, index |-> 1,
   requested_filings |-> 0, new_downloads |-> 0, already_stored |-> 0,
   failed_downloads |-> 0, stored_filings |-> <<>>, errors |-> <<>>]

\* FilingStorage.__init__ on a new directory: an empty table; no call yet
NoFilings ==
  /\ metadata = <<>>
  /\ retrieval = NoRetrieval
  /\ calls = 0
  /\ requests = <<>>
  /\ metadata_before = <<>>
  /\ stored_ok = {}

NoTable == [columns |-> {}, rows |-> <<>>]

Init ==
  /\ company_facts \in CompanyFacts
  /\ years \in YearsArgs
  /\ pc = "start"
  /\ all_data_points = <<>>
  /\ statements_by_period = <<>>
  /\ group_index = 1
  /\ financial_statements = <<>>
  /\ exception = ""
  /\ df = NoTable
  /\ available_tags = <<>>
  /\ concept = ""
  /\ best_tag = None
  /\ NoFilings

\* company_facts.get('facts', {}).get('us-gaap', {})
us_gaap_facts == IF company_facts.has_us_gaap THEN company_facts.us_gaap ELSE <<>>

\* extract_company_financials, lines 72-86: fetch the payload; return []
\* when the fetch raises or there are no us-gaap facts
GetCompanyFacts ==
  /\ pc = "start"
  /\ pc' = IF ~company_facts.fetch_ok \/ us_gaap_facts = <<>>
           THEN "returned" ELSE "extract"
  /\ UNCHANGED <<resolver_vars, filing_vars>>
  /\ UNCHANGED <<company_facts, years, all_data_points, statements_by_period,
                 group_index, financial_statements, exception, df>>

\* _extract_statements_by_period, lines 100-145; an exception of float()
\* leaves extract_company_financials
ExtractDataPoints ==
  /\ pc = "extract"
  /\ LET r == ExtractConcepts(us_gaap_facts, current_year - years, 1,
                              [points |-> <<>>, raised |-> ""])
     IN  /\ all_data_points' = r.points
         /\ exception' = r.raised
         /\ pc' = IF r.raised # "" THEN "raised" ELSE "group"
  /\ UNCHANGED <<resolver_vars, filing_vars>>
  /\ UNCHANGED <<company_facts, years, statements_by_period, group_index,
                 financial_statements, df>>

\* lines 147-164
GroupByPeriod ==
  /\ pc = "group"
  /\ statements_by_period' = GroupPoints(all_data_points, 1, <<>>)
  /\ group_index' = 1
  /\ pc' = "build"
  /\ UNCHANGED <<resolver_vars, filing_vars>>
  /\ UNCHANGED <<company_facts, years, all_data_points, financial_statements,
                 exception, df>>

\* lines 169-195: one iteration of the loop over statements_by_period
BuildStatement ==
  /\ pc = "build"
  /\ group_index <= Len(statements_by_period)
  /\ LET fiscal_year == statements_by_period[group_index].key
         same_filing_points == SelectFiling(statements_by_period[group_index].value)
     IN  IF same_filing_points = <<>>
         THEN financial_statements' = financial_statements
         ELSE \E period_end \in PeriodEndChoices(same_filing_points) :
                financial_statements' = financial_statements \o
                  create_financial_statement(fiscal_year, same_filing_points, period_end)
  /\ group_index' = group_index + 1
  /\ UNCHANGED <<resolver_vars, filing_vars>>
  /\ UNCHANGED <<company_facts, years, pc, all_data_points, statements_by_period,
                 exception, df>>

\* lines 197-200: sort by fiscal year, most recent first, and return
SortStatements ==
  /\ pc = "build"
  /\ group_index > Len(statements_by_period)
  /\ financial_statements' = SortByYearDesc(financial_statements, 1, <<>>)
  /\ pc' = "returned"
  /\ UNCHANGED <<resolver_vars, filing_vars>>
  /\ UNCHANGED <<company_facts, years, all_data_points, statements_by_period,
                 group_index, exception, df>>

\* to_dataframe on the returned statements
ToDataframe ==
  /\ pc = "returned"
  /\ df' = to_dataframe(financial_statements)
  /\ pc' = "projected"
  /\ UNCHANGED <<resolver_vars, filing_vars>>
  /\ UNCHANGED <<company_facts, years, all_data_points, statements_by_period,
                 group_index, financial_statements, exception>>

\* the pipeline
Next ==
  \/ GetCompanyFacts
  \/ ExtractDataPoints
  \/ GroupByPeriod
  \/ BuildStatement
  \/ SortStatements
  \/ ToDataframe

Spec == Init /\ [][Next]_vars

(***************************************************************************)
(* Direct calls of GAAP_MAPPER.find_best_tag                               *)
(***************************************************************************)

\* the longest list of available tags
MaxTags == 3

ResolverTags ==
  {"RevenueFromContractWithCustomerExcludingAssessedTax", "Revenues",
   "SalesRevenueNet", "Assets", "Goodwill"}

ConceptNames ==
  {"revenue", "REVENUE", "total_assets", "Total_Assets", "inventory",
   "goodwill", "GoodWill"}

InitResolver ==
  /\ company_facts = [fetch_ok |-> FALSE, has_us_gaap |-> FALSE, us_gaap |-> <<>>]
  /\ years = DefaultYears
  /\ all_data_points = <<>>
  /\ statements_by_period = <<>>
  /\ group_index = 1
  /\ financial_statements = <<>>
  /\ exception = ""
  /\ df = NoTable
  /\ pc = "query"
  /\ available_tags \in SeqsUpTo(ResolverTags, MaxTags)
  /\ concept \in ConceptNames
  /\ best_tag = None
  /\ NoFilings

\* one call of find_best_tag
FindBestTag ==
  /\ pc = "query"
  /\ best_tag' = find_best_tag(available_tags, concept)
  /\ pc' = "answered"
  /\ UNCHANGED <<pipeline_vars, filing_vars, available_tags, concept>>

\* the caller comes back with another concept and the same tags, as given
\* or in reverse order
NextQuery ==
  /\ pc = "answered"
  /\ available_tags' \in {available_tags,
                          [i \in DOMAIN available_tags |->
                             available_tags[Len(available_tags) + 1 - i]]}
  /\ concept' \in ConceptNames
  /\ pc' = "query"
  /\ UNCHANGED <<pipeline_vars, filing_vars, best_tag>>

NextResolver == FindBestTag \/ NextQuery

SpecResolver == InitResolver /\ [][NextResolver]_vars

(***************************************************************************)
(* to_dataframe called on statement lists of the caller's own making       *)
(***************************************************************************)

\* the largest number of statements in a list given to to_dataframe
MaxStatements == 3

\* statements as to_dataframe reads them: a fiscal year and three mappings
ProjectorStatements ==
  { [period_end |-> <<fiscal_year, 9, 30>>,
     fiscal_year |-> fiscal_year,
     form_type |-> "10-K",
     income_statement |-> income_statement,
     balance_sheet |-> balance_sheet,
     cash_flow |-> <<>>,
     raw_data_points |-> <<>>,
     data_quality_score |-> QualityScore({})] :
      fiscal_year \in {2023, 2024, 2025},
      income_statement \in {<<>>, Assign(<<>>, "revenue", 100),
                            Assign(<<>>, "revenue", 0)},
      balance_sheet \in {<<>>, Assign(<<>>, "total_assets", 7)} }

InitProjector ==
  /\ company_facts = [fetch_ok |-> FALSE, has_us_gaap |-> FALSE, us_gaap |-> <<>>]
  /\ years = DefaultYears
  /\ all_data_points = <<>>
  /\ statements_by_period = <<>>
  /\ group_index = 1
  /\ financial_statements \in SeqsUpTo(ProjectorStatements, MaxStatements)
  /\ exception = ""
  /\ df = NoTable
  /\ pc = "returned"
  /\ available_tags = <<>>
  /\ concept = ""
  /\ best_tag = None
  /\ NoFilings

NextProjector == ToDataframe

SpecProjector == InitProjector /\ [][NextProjector]_vars

TypeOK ==
  /\ pc \in {"start", "extract", "raised", "group", "build", "returned",
             "projected", "query", "answered", "idle", "filings", "result"}
  /\ group_index \in 1..(Len(statements_by_period) + 1)

(***************************************************************************)
(* filing_storage.py and filing_manager.py: FilingStorage, FilingManager   *)
(*                                                                         *)
(* A row of the table filings is kept as its accession_number and its      *)
(* download_date; the other columns are copied from the filing and the     *)
(* company and are read by nothing here.  The files on disk are left out.  *)
(***************************************************************************)

\* the most filings in one listing of EDGAR
MaxFilings == 2

\* the most calls of retrieve_company_filings and store_filing in a run
MaxCalls == 3

\* the accession numbers EDGAR lists for the company
Accessions == {"0000320193-22-000108", "0000320193-23-000106", "0000320193-24-000123"}

\* the listings get_10k_filings can return: no accession number twice
Listings ==
  {s \in SeqsUpTo(Accessions, MaxFilings) :
     \A i, j \in DOMAIN s : s[i] = s[j] => i = j}

\* is_filing_stored answering False whatever the table holds
is_filing_storedNever(table, accession_number) == FALSE

\* FilingStorage.is_filing_stored: SELECT COUNT(*) ... WHERE accession_number = ?
is_filing_stored(table, accession_number) ==
  Cardinality({i \in DOMAIN table : table[i].accession_number = accession_number}) > 0

\* INSERT without the UNIQUE constraint: one more row each time
store_metadataInsert(table, stored_filing) == Append(table, stored_filing)

\* FilingStorage._store_metadata: INSERT OR REPLACE under
\* `accession_number TEXT UNIQUE NOT NULL`: the row of the same accession
\* number is deleted and the new row inserted
store_metadata(table, stored_filing) ==
  Append(SelectSeq(table,
                   LAMBDA row : row.accession_number # stored_filing.accession_number),
         stored_filing)

\* FilingStorage.get_stored_filings, as far as the caller reads it: the rows
\* of an accession number
get_stored_filings(table, accession_number) ==
  SelectSeq(table, LAMBDA row : row.accession_number = accession_number)

\* one turn of the loop where a failure ends the loop: the filings after it
\* are not processed
ProcessFilingStopOnFailure(r, table, reqs, download_ok, store_ok, now) ==
  LET accession_number == r.filings[r.index]
      stored_filing == [accession_number |-> accession_number, download_date |-> now]
  IN  IF ~r.force_redownload /\ is_filing_stored(table, accession_number)
      THEN [retrieval |-> [r EXCEPT !.already_stored = @ + 1,
                                    !.stored_filings =
                                       @ \o SubSeq(get_stored_filings(table, accession_number), 1, 1),
                                    !.index = @ + 1],
            metadata |-> table, requests |-> reqs, stored |-> {}]
      ELSE IF ~download_ok \/ ~store_ok
      THEN [retrieval |-> [r EXCEPT !.errors = Append(@, accession_number),
                                    !.failed_downloads = @ + 1,
                                    !.index = Len(r.filings) + 1],
            metadata |-> table, requests |-> Append(reqs, accession_number),
            stored |-> {}]
      ELSE [retrieval |-> [r EXCEPT !.stored_filings = Append(@, stored_filing),
                                    !.new_downloads = @ + 1,
                                    !.index = @ + 1],
            metadata |-> store_metadata(table, stored_filing),
            requests |-> Append(reqs, accession_number),
            stored |-> {accession_number}]

\* retrieve_company_filings, lines 133-185: one turn of `for filing in
\* filings`.  download_ok: _download_filing_content returns; store_ok:
\* store_filing returns; either one raising is caught at line 181.
ProcessFiling(r, table, reqs, download_ok, store_ok, now) ==
  LET accession_number == r.filings[r.index]
      stored_filing == [accession_number |-> accession_number, download_date |-> now]
  IN  IF ~r.force_redownload /\ is_filing_stored(table, accession_number)
      THEN [retrieval |-> [r EXCEPT !.already_stored = @ + 1,
                                    !.stored_filings =
                                       @ \o SubSeq(get_stored_filings(table, accession_number), 1, 1),
                                    !.index = @ + 1],
            metadata |-> table, requests |-> reqs, stored |-> {}]
      ELSE IF ~download_ok \/ ~store_ok
      THEN [retrieval |-> [r EXCEPT !.errors = Append(@, accession_number),
                                    !.failed_downloads = @ + 1,
                                    !.index = @ + 1],
            metadata |-> table, requests |-> Append(reqs, accession_number),
            stored |-> {}]
      ELSE [retrieval |-> [r EXCEPT !.stored_filings = Append(@, stored_filing),
                                    !.new_downloads = @ + 1,
                                    !.index = @ + 1],
            metadata |-> store_metadata(table, stored_filing),
            requests |-> Append(reqs, accession_number),
            stored |-> {accession_number}]

InitFilings ==
  /\ company_facts = [fetch_ok |-> FALSE, has_us_gaap |-> FALSE, us_gaap |-> <<>>]
  /\ years = DefaultYears
  /\ all_data_points = <<>>
  /\ statements_by_period = <<>>
  /\ group_index = 1
  /\ financial_statements = <<>>
  /\ exception = ""
  /\ df = NoTable
  /\ pc = "idle"
  /\ available_tags = <<>>
  /\ concept = ""
  /\ best_tag = None
  /\ NoFilings

\* retrieve_company_filings, lines 64-131: the company is resolved and its
\* filings are listed; when one of the two fails the call returns zeros and
\* the error
RetrieveCompanyFilings ==
  /\ pc = "idle"
  /\ calls < MaxCalls
  /\ calls' = calls + 1
  /\ metadata_before' = metadata
  /\ requests' = <<>>
  /\ \E filings \in Listings, force_redownload \in BOOLEAN, listed \in BOOLEAN :
       IF listed
       THEN /\ retrieval' = [NoRetrieval EXCEPT !.filings = filings,
                                                !.force_redownload = force_redownload,
                                                !.listed = TRUE]
            /\ pc' = "filings"
       ELSE /\ retrieval' = [NoRetrieval EXCEPT !.force_redownload = force_redownload,
                                                !.errors = <<"listing">>]
            /\ pc' = "result"
  /\ UNCHANGED <<pipeline_vars, resolver_vars, metadata, stored_ok>>

\* lines 133-185: the turn of the loop for filings[index]
ProcessNextFiling ==
  /\ pc = "filings"
  /\ retrieval.index <= Len(retrieval.filings)
  /\ \E download_ok, store_ok \in BOOLEAN :
       LET turn == ProcessFiling(retrieval, metadata, requests, download_ok,
                                 store_ok, calls)
       IN  /\ retrieval' = turn.retrieval
           /\ metadata' = turn.metadata
           /\ requests' = turn.requests
           /\ stored_ok' = stored_ok \cup turn.stored
  /\ UNCHANGED <<pipeline_vars, resolver_vars, calls, metadata_before, pc>>

\* lines 187-199: the result after the last filing
ReturnResult ==
  /\ pc = "filings"
  /\ retrieval.index > Len(retrieval.filings)
  /\ retrieval' = [retrieval EXCEPT !.requested_filings = Len(retrieval.filings)]
  /\ pc' = "result"
  /\ UNCHANGED <<pipeline_vars, resolver_vars, metadata, calls, requests,
                 metadata_before, stored_ok>>

\* the caller has read the result
NextCall ==
  /\ pc = "result"
  /\ pc' = "idle"
  /\ retrieval' = NoRetrieval
  /\ requests' = <<>>
  /\ UNCHANGED <<pipeline_vars, resolver_vars, metadata, calls, metadata_before,
                 stored_ok>>

\* FilingStorage.store_filing called by itself; it raises when the file or
\* the row cannot be written, and then no row is committed
StoreFiling ==
  /\ pc = "idle"
  /\ calls < MaxCalls
  /\ calls' = calls + 1
  /\ metadata_before' = metadata
  /\ \E accession_number \in Accessions, store_ok \in BOOLEAN :
       IF store_ok
       THEN /\ metadata' = store_metadata(metadata,
                             [accession_number |-> accession_number,
                              download_date |-> calls'])
            /\ stored_ok' = stored_ok \cup {accession_number}
       ELSE UNCHANGED <<metadata, stored_ok>>
  /\ UNCHANGED <<pipeline_vars, resolver_vars, retrieval, requests, pc>>

NextFilings ==
  \/ RetrieveCompanyFilings
  \/ ProcessNextFiling
  \/ ReturnResult
  \/ NextCall
  \/ StoreFiling

SpecFilings == InitFilings /\ [][NextFilings]_vars

(***************************************************************************)
(* Properties                                                              *)
(***************************************************************************)

Statements == Range(financial_statements)

Groups == Range(statements_by_period)

\* the year-group a statement was built from
GroupOf(stmt) == CHOOSE g \in Groups : g.key = stmt.fiscal_year

FormsOf(points) == {points[i].form : i \in DOMAIN points}

FiledDatesOf(points) == {points[i].filed_date : i \in DOMAIN points}

\* the records of the preferred form of a group: the 10-K records when
\* there is one, else the 10-Q records
PreferredRecords(points) ==
  IF "10-K" \in FormsOf(points)
  THEN SelectSeq(points, LAMBDA dp : dp.form = "10-K")
  ELSE SelectSeq(points, LAMBDA dp : dp.form = "10-Q")

\* the latest of a set of filed dates, a missing date below every date
LatestFiled(dates) == CHOOSE d \in dates : \A e \in dates : ~StrLess(d, e)

\* the loop over the year-groups has finished
Built == pc \in {"returned", "projected"} /\ statements_by_period # <<>>

\* C1: all records of a statement carry the same filed_date
C1_SameFiledDate ==
  \A stmt \in Statements :
    \A i, j \in DOMAIN stmt.raw_data_points :
      stmt.raw_data_points[i].filed_date = stmt.raw_data_points[j].filed_date

\* a statement of a year whose preferred-form records come from two filings
C1_Witness ==
  \E stmt \in Statements :
    Cardinality(FiledDatesOf(PreferredRecords(GroupOf(stmt).value))) >= 2

\* C2: a year-group with a 10-K record gives a statement built from 10-K
\* records only; 10-Q records are used only in a group without a 10-K
C2_FormPreference ==
  /\ \A stmt \in Statements :
       IF "10-K" \in FormsOf(GroupOf(stmt).value)
       THEN FormsOf(stmt.raw_data_points) = {"10-K"}
       ELSE FormsOf(stmt.raw_data_points) = {"10-Q"}
  /\ Built =>
       \A g \in Groups :
         "10-K" \in FormsOf(g.value) => \E stmt \in Statements : stmt.fiscal_year = g.key

\* a statement of a year with a 10-K and a 10-Q filed after every 10-K
C2_Witness ==
  \E stmt \in Statements :
    \E i \in DOMAIN GroupOf(stmt).value :
      LET q == GroupOf(stmt).value[i]
      IN  /\ q.form = "10-Q"
          /\ "10-K" \in FormsOf(GroupOf(stmt).value)
          /\ \A j \in DOMAIN GroupOf(stmt).value :
               GroupOf(stmt).value[j].form = "10-K" =>
                 StrLess(GroupOf(stmt).value[j].filed_date, q.filed_date)

\* C3: the records of a statement are exactly the preferred-form records of
\* its year with the latest filed_date, and none of them was filed later
C3_MostRecentFiling ==
  \A stmt \in Statements :
    LET preferred == PreferredRecords(GroupOf(stmt).value)
        latest == LatestFiled(FiledDatesOf(preferred))
    IN  /\ stmt.raw_data_points =
             SelectSeq(preferred, LAMBDA dp : dp.filed_date = latest)
        /\ \A i \in DOMAIN preferred :
             ~StrLess(stmt.raw_data_points[1].filed_date, preferred[i].filed_date)

\* a statement of a year whose preferred-form records have a missing filed
\* date, or two different filed dates the later of which comes second
C3_Witness ==
  \E stmt \in Statements :
    LET preferred == PreferredRecords(GroupOf(stmt).value)
    IN  /\ Len(preferred) >= 2
        /\ StrLess(preferred[1].filed_date, preferred[2].filed_date)

\* the grouping loop has run
Grouped == pc \in {"build", "returned", "projected"} /\ all_data_points # <<>>

\* C4: a record with period-end month >= 9 or form 10-K is in the group of
\* the calendar year of its period end and in no other; every record of a
\* statement ends in the statement's fiscal year
C4_FiscalYearAssignment ==
  /\ Grouped =>
       \A i \in DOMAIN all_data_points :
         LET dp == all_data_points[i]
         IN  (dp.end_date[2] >= 9 \/ dp.form = "10-K") =>
               /\ \E g \in Groups : g.key = dp.end_date[1] /\ dp \in Range(g.value)
               /\ \A g \in Groups : dp \in Range(g.value) => g.key = dp.end_date[1]
  /\ \A stmt \in Statements :
       \A i \in DOMAIN stmt.raw_data_points :
         stmt.raw_data_points[i].end_date[1] = stmt.fiscal_year

\* a statement holding a 10-K record that ends before September, and a
\* group holding a 10-Q record
C4_Witness ==
  /\ \E stmt \in Statements :
       \E i \in DOMAIN stmt.raw_data_points :
         stmt.raw_data_points[i].end_date[2] < 9
  /\ \E g \in Groups : "10-Q" \in FormsOf(g.value)

\* d without the key k
RemoveKey(d, k) == [x \in (DOMAIN d) \ {k} |-> d[x]]

\* the statements with concept c taken out of statement i
NeverReported(stmts, i, c) ==
  [stmts EXCEPT ![i] = [@ EXCEPT !.income_statement = RemoveKey(@, c),
                                 !.balance_sheet = RemoveKey(@, c),
                                 !.cash_flow = RemoveKey(@, c)]]

\* the cell of a table in the row of a fiscal year: None when the table has
\* no column c, else Some(cell)
Cell(table, fiscal_year, c) ==
  IF c \notin table.columns THEN None
  ELSE LET row == CHOOSE i \in DOMAIN table.rows :
                    table.rows[i].fiscal_year = fiscal_year
       IN  Some(table.rows[row].cells[c])

\* the value a statement holds for a concept, None for no value
ValueOf(stmt, c) ==
  IF c \in DOMAIN stmt.income_statement THEN Some(stmt.income_statement[c])
  ELSE IF c \in DOMAIN stmt.balance_sheet THEN Some(stmt.balance_sheet[c])
  ELSE IF c \in DOMAIN stmt.cash_flow THEN Some(stmt.cash_flow[c])
  ELSE None

\* C5: in the table of to_dataframe, the cell of a concept reported as 0
\* differs from the cell of the same statement without that concept
C5_ZeroDiffersFromAbsent ==
  pc = "projected" =>
    \A i \in DOMAIN financial_statements :
      \A c \in AllConcepts(financial_statements) :
        ValueOf(financial_statements[i], c) = Some(0) =>
          Cell(df, financial_statements[i].fiscal_year, c) #
            Cell(to_dataframe(NeverReported(financial_statements, i, c)),
                 financial_statements[i].fiscal_year, c)

RequiredConcepts ==
  {Taxonomy[i].concept : i \in {j \in DOMAIN Taxonomy : Taxonomy[j].required}}

ConceptsOf(stmt) ==
  {stmt.raw_data_points[i].concept : i \in DOMAIN stmt.raw_data_points}

\* C6: data_quality_score is the number of required concepts among the
\* records over the number of required concepts, lies in [0, 1], and is 1
\* when every required concept is present
C6_QualityScore ==
  \A stmt \in Statements :
    LET score == stmt.data_quality_score
    IN  /\ score.den = Cardinality(RequiredConcepts)
        /\ score.num = Cardinality(ConceptsOf(stmt) \cap RequiredConcepts)
        /\ 0 <= score.num /\ score.num <= score.den
        /\ RequiredConcepts \subseteq ConceptsOf(stmt) => score.num = score.den

\* a finished run with a statement that has every required concept
C6_Witness ==
  /\ pc = "projected"
  /\ \E stmt \in Statements : RequiredConcepts \subseteq ConceptsOf(stmt)

\* the tags of a taxonomy entry
TagsOf(t) == {t.tag} \cup Range(t.alternative_tags)

\* the concepts none of whose tags is a key of the payload
Unresolved ==
  {Taxonomy[i].concept :
     i \in {j \in DOMAIN Taxonomy :
              TagsOf(Taxonomy[j]) \cap Range(Keys(us_gaap_facts)) = {}}}

\* C7: when total_assets is the only required concept the payload lacks, a
\* statement with all the others scores (|required| - 1) / |required|;
\* optional concepts do not enter the score
C7_MissingTotalAssets ==
  \A stmt \in Statements :
    LET score == stmt.data_quality_score
        n == Cardinality(RequiredConcepts)
    IN  /\ (/\ Unresolved \cap RequiredConcepts = {"total_assets"}
            /\ RequiredConcepts \ ConceptsOf(stmt) = {"total_assets"})
             => score.num * n = (n - 1) * score.den
        /\ score = QualityScore(ConceptsOf(stmt) \cap RequiredConcepts)

\* such a statement, which also holds the optional gross_profit
C7_Witness ==
  \E stmt \in Statements :
    /\ Unresolved \cap RequiredConcepts = {"total_assets"}
    /\ RequiredConcepts \ ConceptsOf(stmt) = {"total_assets"}
    /\ "gross_profit" \in ConceptsOf(stmt)

\* C8: a concept none of whose tags is a key of the payload is a key of no
\* mapping of any statement, and the extraction of the other concepts
\* completes without an exception
C8_UnresolvedOmitted ==
  /\ \A stmt \in Statements :
       \A c \in Unresolved :
         c \notin (DOMAIN stmt.income_statement) \cup (DOMAIN stmt.balance_sheet)
                    \cup (DOMAIN stmt.cash_flow)
  /\ Unresolved # {} => pc # "raised"

\* the tag the resolver is to return for a concept name, given the set of
\* available tags; concept names are matched in lower case
ExpectedTag(available, name) ==
  LET hits == {i \in DOMAIN Taxonomy : Taxonomy[i].concept = Lower(name)}
  IN  IF hits = {} THEN None
      ELSE LET t == Taxonomy[CHOOSE i \in hits : TRUE]
               present == {i \in DOMAIN t.alternative_tags :
                             t.alternative_tags[i] \in available}
           IN  IF t.tag \in available THEN Some(t.tag)
               ELSE IF present = {} THEN None
               ELSE Some(t.alternative_tags[CHOOSE i \in present :
                                              \A j \in present : i <= j])

\* C9: find_best_tag returns the primary tag if available, else the first
\* available alternative in declared order, else None; None for a name that
\* is not a concept; the result is a function of the set of available tags
C9_TagResolution ==
  pc = "answered" => best_tag = ExpectedTag(Range(available_tags), concept)

\* both alternatives of revenue available, the second one listed first
C9_Witness ==
  /\ pc = "answered"
  /\ concept = "revenue"
  /\ available_tags = <<"SalesRevenueNet", "Revenues">>
  /\ best_tag = Some("Revenues")

\* d is a calendar date
IsDate(d) == Len(d) = 3 /\ d[2] \in 1..12 /\ d[3] \in 1..31

\* every record of the extraction loop and of the statements
EmittedRecords ==
  Range(all_data_points)
    \cup UNION {Range(stmt.raw_data_points) : stmt \in Statements}

\* C10 as stated: every emitted record has form 10-K or 10-Q, a period end
\* that is a date, and a period-end year in [current_year - years, current_year]
C10_ClosedWindow ==
  \A dp \in EmittedRecords :
    /\ dp.form \in {"10-K", "10-Q"}
    /\ IsDate(dp.end_date)
    /\ current_year - years <= dp.end_date[1]
    /\ dp.end_date[1] <= current_year

\* C10 amended: as above with the lower bound of the window only
C10_LowerBound ==
  \A dp \in EmittedRecords :
    /\ dp.form \in {"10-K", "10-Q"}
    /\ IsDate(dp.end_date)
    /\ current_year - years <= dp.end_date[1]

\* the data points of the payload under a tag
PointsOfTag(tag) ==
  UNION {Range(u.value) : u \in Range(Lookup(us_gaap_facts, tag))}

\* a finished run with a statement for a year after the current one, from a
\* payload whose resolved tag also had a point the loop filtered out
C10_Witness ==
  /\ pc = "projected"
  /\ \E stmt \in Statements : stmt.fiscal_year > current_year
  /\ \E dp \in Range(all_data_points) :
       \E point \in PointsOfTag(dp.gaap_tag) :
         \/ Get(point, "form", "") \notin {"10-K", "10-Q"}
         \/ Get(point, "end", None) = None
         \/ ~IsDate(Get(point, "end", None))
         \/ Get(point, "end", None)[1] < current_year - years

(***************************************************************************)
(* Error handling: C11 - C13                                               *)
(***************************************************************************)

\* the value extract_company_financials returns once it has returned: the []
\* of lines 77 and 86, or the list of line 94
ReturnValue == financial_statements

\* the fetch raised, or the payload has no facts.us-gaap, or it is empty
StructuralFailure ==
  \/ ~company_facts.fetch_ok
  \/ ~company_facts.has_us_gaap
  \/ company_facts.us_gaap = <<>>

\* C11: after a structural failure the returned value is not the bare empty
\* list that a run which found no statement returns
C11_FailureExplained ==
  (pc \in {"returned", "projected"} /\ StructuralFailure) => ReturnValue # <<>>

\* C12: the extraction of a payload with non-empty facts.us-gaap raises no
\* exception, whatever data point it holds
C12_NoCrashOnMalformedPoint ==
  us_gaap_facts # <<>> => pc # "raised" /\ exception = ""

\* the end date of a data point is missing, empty, or a string that is not a
\* YYYY-MM-DD date
BadEnd(point) ==
  LET end_date == Get(point, "end", None)
  IN  end_date = None \/ (IsStr(end_date) /\ ~strptime(end_date).ok)

\* the payload without its data points of a missing or unparseable end date;
\* tags and units stay
DropBadEnds(facts) ==
  [i \in DOMAIN facts |->
     [key |-> facts[i].key,
      value |-> [j \in DOMAIN facts[i].value |->
                   [key |-> facts[i].value[j].key,
                    value |-> SelectSeq(facts[i].value[j].value,
                                        LAMBDA point : ~BadEnd(point))]]]]

\* the extraction loop has just run, to its end or to an exception
Extracted == pc \in {"group", "raised"}

\* C13: what the extraction loop yields, records and exception alike, is what
\* it yields for the payload without the data points of a missing, empty or
\* unparseable end date: such a point gives no record and no exception, and
\* every other point gives what it gives without it
C13_BadEndSkipped ==
  Extracted =>
    [points |-> all_data_points, raised |-> exception]
      = ExtractConcepts(DropBadEnds(us_gaap_facts), current_year - years, 1,
                        [points |-> <<>>, raised |-> ""])

\* the loop has run to its end on a payload where a point of a bad end date
\* comes first in the list of a resolved tag and the next point of that list
\* gave a record
C13_Witness ==
  /\ pc = "group"
  /\ \E i \in DOMAIN us_gaap_facts :
       \E j \in DOMAIN us_gaap_facts[i].value :
         LET points == us_gaap_facts[i].value[j].value
         IN  /\ Len(points) >= 2
             /\ BadEnd(points[1])
             /\ \E dp \in Range(all_data_points) :
                  /\ dp.gaap_tag = us_gaap_facts[i].key
                  /\ dp.end_date = Get(points[2], "end", None)

(***************************************************************************)
(* Values: C14 - C16                                                       *)
(***************************************************************************)

\* the concept keys of the three mappings of a statement
MappingKeys(stmt) ==
  (DOMAIN stmt.income_statement) \cup (DOMAIN stmt.balance_sheet)
    \cup (DOMAIN stmt.cash_flow)

\* C14: every value of a mapping of a statement is the val of a data point of
\* the payload under the tag resolved for the concept, of the form and the
\* filed date of the statement's filing and of an end date in its fiscal year
C14_ValuesUnchanged ==
  \A stmt \in Statements :
    \A c \in MappingKeys(stmt) :
      LET tag == find_best_tag(Keys(us_gaap_facts), c)
      IN  /\ tag # None
          /\ \E point \in PointsOfTag(tag[1]) :
               /\ "val" \in point.keys
               /\ point.val = ValueOf(stmt, c)
               /\ Get(point, "form", "") = stmt.form_type
               /\ Get(point, "filed", None) = stmt.raw_data_points[1].filed_date
               /\ IsDate(Get(point, "end", None))
               /\ Get(point, "end", None)[1] = stmt.fiscal_year

\* C15: a record of value 0 comes from a data point that reported val = 0,
\* never from one without a val field
C15_MissingValNotZero ==
  \A dp \in EmittedRecords :
    dp.value = 0 =>
      \E point \in PointsOfTag(dp.gaap_tag) :
        /\ "val" \in point.keys
        /\ point.val = Some(0)
        /\ Get(point, "end", None) = dp.end_date
        /\ Get(point, "form", "") = dp.form
        /\ Get(point, "filed", None) = dp.filed_date

\* C16: every statement keeps at least one record, and a statement exists
\* only for a year-group that has a record of the preferred form to select
C16_NoEmptyStatement ==
  /\ \A stmt \in Statements : stmt.raw_data_points # <<>>
  /\ {stmt.fiscal_year : stmt \in Statements}
       \subseteq {g.key : g \in {h \in Groups : PreferredRecords(h.value) # <<>>}}
  /\ Built => Len(financial_statements) <= Len(statements_by_period)

\* a finished run with the statements of two year-groups
C16_Witness ==
  /\ pc = "projected"
  /\ Len(statements_by_period) = 2
  /\ Len(financial_statements) = 2

(***************************************************************************)
(* Projection: C17 - C18                                                   *)
(***************************************************************************)

\* the bijections between the positions of a list and those of another
Matchings(a, b) ==
  {f \in [DOMAIN a -> DOMAIN b] : \A i, j \in DOMAIN a : f[i] = f[j] => i = j}

\* C17: the table has one row for each statement and one column for each
\* concept that is a key of a mapping of some statement, and the cell of a
\* statement for a concept it does not hold is None, never 0
C17_ColumnsAndMissingMarker ==
  pc = "projected" =>
    /\ Len(df.rows) = Len(financial_statements)
    /\ df.columns = UNION {MappingKeys(stmt) : stmt \in Statements}
    /\ \E f \in Matchings(financial_statements, df.rows) :
         \A i \in DOMAIN financial_statements :
           LET stmt == financial_statements[i]
               row == df.rows[f[i]]
           IN  /\ row.fiscal_year = stmt.fiscal_year
               /\ DOMAIN row.cells = df.columns
               /\ \A c \in df.columns :
                    c \notin MappingKeys(stmt) => row.cells[c] = None

\* a table of two statements, each without a concept the other holds
C17_Witness ==
  /\ pc = "projected"
  /\ Len(financial_statements) >= 2
  /\ \E s, t \in Statements :
       /\ "revenue" \in MappingKeys(s) /\ "revenue" \notin MappingKeys(t)
       /\ "total_assets" \in MappingKeys(t) /\ "total_assets" \notin MappingKeys(s)

\* C18: the rows of the table are in non-increasing fiscal_year order
C18_RowsDescending ==
  pc = "projected" =>
    \A i, j \in DOMAIN df.rows :
      i < j => df.rows[i].fiscal_year >= df.rows[j].fiscal_year

\* a table made from a list that was not in descending order
C18_Witness ==
  /\ pc = "projected"
  /\ \E i, j \in DOMAIN financial_statements :
       i < j /\ financial_statements[i].fiscal_year < financial_statements[j].fiscal_year

(***************************************************************************)
(* The run as a whole: C19 - C20                                           *)
(***************************************************************************)

\* the payload whose only tag is Revenues, with the 10-K points of fiscal
\* years 2023 and 2024
ScenarioFacts ==
  [fetch_ok |-> TRUE, has_us_gaap |-> TRUE,
   us_gaap |-> <<[key |-> "Revenues",
                  value |-> <<[key |-> "USD",
                               value |-> <<PointFY23, PointFY24>>]>>]>>]

\* the record of revenue under Revenues of a 10-K point
RevenueRecord(point) ==
  [concept |-> "revenue", gaap_tag |-> "Revenues", value |-> point.val[1],
   unit |-> "USD", end_date |-> point.end, form |-> "10-K",
   filed_date |-> point.filed]

\* C19: on the scenario payload revenue resolves to Revenues, the loop
\* extracts the two records, the statements are those of fiscal years 2024
\* and 2023 with revenue 110 and 100, and the revenue column of the table
\* reads 110, 100
C19_Scenario ==
  company_facts = ScenarioFacts =>
    /\ find_best_tag(Keys(us_gaap_facts), "revenue") = Some("Revenues")
    /\ pc # "raised"
    /\ pc \notin {"start", "extract"} =>
         all_data_points = <<RevenueRecord(PointFY23), RevenueRecord(PointFY24)>>
    /\ pc \in {"returned", "projected"} =>
         /\ Len(financial_statements) = 2
         /\ {[fiscal_year |-> stmt.fiscal_year,
              income_statement |-> stmt.income_statement,
              balance_sheet |-> stmt.balance_sheet,
              cash_flow |-> stmt.cash_flow] : stmt \in Statements}
              = {[fiscal_year |-> 2023,
                  income_statement |-> Assign(<<>>, "revenue", 100),
                  balance_sheet |-> <<>>, cash_flow |-> <<>>],
                 [fiscal_year |-> 2024,
                  income_statement |-> Assign(<<>>, "revenue", 110),
                  balance_sheet |-> <<>>, cash_flow |-> <<>>]}
    /\ pc = "projected" =>
         /\ Len(df.rows) = 2
         /\ df.columns = {"revenue"}
         /\ [i \in DOMAIN df.rows |-> df.rows[i].cells["revenue"]]
              = <<Some(110), Some(100)>>
         /\ [i \in DOMAIN df.rows |-> df.rows[i].fiscal_year] = <<2024, 2023>>

\* the scenario run to its table
C19_Witness == pc = "projected" /\ company_facts = ScenarioFacts

\* C20: a statement is the only one an execution can build from its records:
\* whatever end date max(set(end_dates), key=end_dates.count) returns, the
\* statement is the same in every field
C20_Deterministic ==
  \A stmt \in Statements :
    \A period_end \in PeriodEndChoices(stmt.raw_data_points) :
      create_financial_statement(stmt.fiscal_year, stmt.raw_data_points,
                                 period_end) = Some(stmt)

(***************************************************************************)
(* Order, grouping and tags: C21 - C28                                     *)
(***************************************************************************)

\* C21: the returned statements are in strictly descending fiscal_year
\* order: the latest fiscal year first and no fiscal year twice
C21_StrictlyDescending ==
  pc \in {"returned", "projected"} =>
    \A i, j \in DOMAIN financial_statements :
      i < j => financial_statements[i].fiscal_year > financial_statements[j].fiscal_year

\* a returned list of two statements whose year-groups were built in
\* ascending order
C21_Witness ==
  /\ pc = "returned"
  /\ Len(financial_statements) = 2
  /\ statements_by_period[1].key < statements_by_period[2].key

\* the extracted records of the filing of a statement, in extraction order
FilingRecords(stmt) ==
  SelectSeq(all_data_points,
            LAMBDA dp : /\ FiscalYearOf(dp) = Some(stmt.fiscal_year)
                        /\ dp.form = stmt.form_type
                        /\ dp.filed_date = stmt.raw_data_points[1].filed_date)

\* C23: the records of a statement are those of its filing in extraction
\* order, and the value of a concept is that of the last of them for the
\* concept
C23_LastRecordWins ==
  \A stmt \in Statements :
    /\ stmt.raw_data_points = FilingRecords(stmt)
    /\ \A c \in MappingKeys(stmt) :
         LET of_concept == SelectSeq(FilingRecords(stmt), LAMBDA dp : dp.concept = c)
         IN  /\ of_concept # <<>>
             /\ ValueOf(stmt, c) = Some(of_concept[Len(of_concept)].value)

\* a statement whose filing has two records of different values for a concept
C23_Witness ==
  /\ pc = "projected"
  /\ \E stmt \in Statements :
       \E i, j \in DOMAIN stmt.raw_data_points :
         /\ i < j
         /\ stmt.raw_data_points[i].concept = stmt.raw_data_points[j].concept
         /\ stmt.raw_data_points[i].value # stmt.raw_data_points[j].value

\* an extracted 10-Q record whose period ends before September
EarlyQuarterly(dp) == dp.form = "10-Q" /\ dp.end_date[2] < 9

\* C24: a 10-Q record ending before September is in no year-group and in no
\* statement, and a calendar year that has only such records has no
\* statement
C24_EarlyQuarterlyDropped ==
  \A dp \in Range(all_data_points) :
    EarlyQuarterly(dp) =>
      /\ \A g \in Groups : dp \notin Range(g.value)
      /\ \A stmt \in Statements : dp \notin Range(stmt.raw_data_points)
      /\ (\A other \in Range(all_data_points) :
            other.end_date[1] = dp.end_date[1] => EarlyQuarterly(other))
           => \A stmt \in Statements : stmt.fiscal_year # dp.end_date[1]

\* a finished run that extracted a 10-Q record ending in June and has a
\* statement
C24_Witness ==
  /\ pc = "projected"
  /\ \E dp \in Range(all_data_points) : EarlyQuarterly(dp)
  /\ Statements # {}

\* the primary tag of a concept
PrimaryTag(c) ==
  (CHOOSE t \in Range(Taxonomy) : t.concept = c).tag

\* C25: every record of a concept carries the one tag the resolver is to
\* return for the concept over the keys of the payload, which is the primary
\* tag whenever that is a key
C25_OneTagPerConcept ==
  \A dp \in EmittedRecords :
    /\ Some(dp.gaap_tag) = ExpectedTag(Range(Keys(us_gaap_facts)), dp.concept)
    /\ PrimaryTag(dp.concept) \in Range(Keys(us_gaap_facts))
         => dp.gaap_tag = PrimaryTag(dp.concept)
    /\ \A other \in EmittedRecords :
         other.concept = dp.concept => other.gaap_tag = dp.gaap_tag

\* a finished run on a payload with the primary tag of revenue and, under
\* the alternative Revenues, a point of a year the primary tag has no point
\* for: that year has no statement
C25_Witness ==
  /\ pc = "projected"
  /\ {PrimaryTag("revenue"), "Revenues"} \subseteq Range(Keys(us_gaap_facts))
  /\ \E point \in PointsOfTag("Revenues") :
       /\ point = PointFY23
       /\ \A stmt \in Statements : stmt.fiscal_year # 2023
  /\ \E stmt \in Statements : "revenue" \in MappingKeys(stmt)

\* the statement type the taxonomy gives a concept
StatementTypeOf(c) ==
  (CHOOSE t \in Range(Taxonomy) : t.concept = c).statement_type

\* C26: the key sets of the three mappings of a statement are pairwise
\* disjoint, every key is a concept of the taxonomy, and a key is in the
\* mapping of the statement type of its concept
C26_StatementPartition ==
  \A stmt \in Statements :
    /\ (DOMAIN stmt.income_statement) \cap (DOMAIN stmt.balance_sheet) = {}
    /\ (DOMAIN stmt.income_statement) \cap (DOMAIN stmt.cash_flow) = {}
    /\ (DOMAIN stmt.balance_sheet) \cap (DOMAIN stmt.cash_flow) = {}
    /\ MappingKeys(stmt) \subseteq {t.concept : t \in Range(Taxonomy)}
    /\ \A c \in DOMAIN stmt.income_statement : StatementTypeOf(c) = "income_statement"
    /\ \A c \in DOMAIN stmt.balance_sheet : StatementTypeOf(c) = "balance_sheet"
    /\ \A c \in DOMAIN stmt.cash_flow : StatementTypeOf(c) = "cash_flow"

\* a finished run with a statement that has keys in all three mappings
C26_Witness ==
  /\ pc = "projected"
  /\ \E stmt \in Statements :
       /\ DOMAIN stmt.income_statement # {}
       /\ DOMAIN stmt.balance_sheet # {}
       /\ DOMAIN stmt.cash_flow # {}

\* how many records of a statement end on a date
EndCount(stmt, end_date) ==
  Cardinality({i \in DOMAIN stmt.raw_data_points :
                 stmt.raw_data_points[i].end_date = end_date})

\* C27: form_type is the form of every record of the statement, period_end
\* is the end date of one of them and no end date is more frequent among
\* them, and the year of period_end is fiscal_year
C27_HeaderConsistency ==
  \A stmt \in Statements :
    /\ \A dp \in Range(stmt.raw_data_points) : dp.form = stmt.form_type
    /\ \E dp \in Range(stmt.raw_data_points) : dp.end_date = stmt.period_end
    /\ \A dp \in Range(stmt.raw_data_points) :
         EndCount(stmt, dp.end_date) <= EndCount(stmt, stmt.period_end)
    /\ stmt.period_end[1] = stmt.fiscal_year

\* a finished run with a statement whose records end on two dates
C27_Witness ==
  /\ pc = "projected"
  /\ \E stmt \in Statements :
       \E dp \in Range(stmt.raw_data_points) : dp.end_date # stmt.period_end

\* C28: no tag, primary or alternative, belongs to two concepts; the
\* concept of every tag of a concept is that concept; and the concept of the
\* tag find_best_tag returns for a concept is that concept
C28_TaxonomyRoundTrip ==
  /\ \A i, j \in DOMAIN Taxonomy :
       i # j => TagsOf(Taxonomy[i]) \cap TagsOf(Taxonomy[j]) = {}
  /\ \A t \in Range(Taxonomy) :
       \A tag \in TagsOf(t) : get_concept_name(tag) = Some(t.concept)
  /\ (pc = "answered" /\ best_tag # None /\ concept \in Range(get_all_concepts))
       => get_concept_name(best_tag[1]) = Some(concept)

\* the resolver has answered with an alternative tag of a concept
C28_Witness ==
  /\ pc = "answered"
  /\ concept \in Range(get_all_concepts)
  /\ best_tag # None
  /\ best_tag[1] # PrimaryTag(concept)

(***************************************************************************)
(* Filings: C22, C29, C30                                                  *)
(***************************************************************************)

\* the accession numbers that have a row in a table
StoredIn(table) == {table[i].accession_number : i \in DOMAIN table}

\* the rows of an accession number in a table
RowsOf(table, accession_number) ==
  SelectSeq(table, LAMBDA row : row.accession_number = accession_number)

\* the filings of the listing the loop has been through
Processed == {retrieval.filings[i] : i \in 1 .. (retrieval.index - 1)}

=============================================================================
